---------------------------- MODULE Spec2Model ----------------------------
(***************************************************************************)
(* Presentation surface of the Vulkan backend                             *)
(* (src/backend/vulkan/src/window.rs): Surface::configure_swapchain,       *)
(* Surface::acquire_image, Surface::clear_stale_views and the drop of a    *)
(* SurfaceImage, over an abstract driver.                                  *)
(*                                                                         *)
(* Handles are naturals.  The n-th successful configuration gets the       *)
(* swapchain, fence, semaphore and view-set handle n; its k-th image view  *)
(* is the pair <<n, k>>.  An Option is a sequence of length 0 or 1.        *)
(*                                                                         *)
(* configure_swapchain and acquire_image take &mut self, so they never     *)
(* overlap.  A SurfaceImage is an independent value: its drop may happen   *)
(* between any two steps of acquire_image, which is why acquire_image is   *)
(* split at the points where it reads or writes the shared reference       *)
(* count (one step per stale entry, the retain, the driver request, the    *)
(* fence wait).                                                            *)
(***************************************************************************)
EXTENDS Integers, Sequences, FiniteSets, TLC

\* ---------------------------------------------------------------- bounds
MaxConfigs == 2     \* successful configure_swapchain calls in one behaviour
MaxImages == 2      \* largest image count the driver gives a swapchain
MaxHeld == 2        \* SurfaceImages the caller holds at once
MaxElapsed == 2     \* largest moment.elapsed() of the next-image request
WordBits == 3       \* width the u64 timeout arithmetic is modelled at

CountBits == 4      \* width the u32 image counts are modelled at
MaxExtent == 2      \* largest width and height of a dummy Swapchain

U64Modulus == 2 ^ WordBits
U64Max == U64Modulus - 1

\* Timeouts the caller passes: poll, shortest wait, block indefinitely.
Timeouts == {0, 1, U64Max}

ImageCounts == 0 .. MaxImages

\* Formats the caller asks for in SwapchainConfig.
Formats == {"Rgba8Unorm", "Bgra8Srgb"}

\* ------------------------------------------------------- driver statuses
\* The vk::Result values the two match expressions name, and one that
\* stands for every other failure status.
VkErrors ==
    { "NOT_READY", "TIMEOUT", "ERROR_OUT_OF_DATE_KHR", "ERROR_SURFACE_LOST_KHR",
      "ERROR_OUT_OF_HOST_MEMORY", "ERROR_OUT_OF_DEVICE_MEMORY",
      "ERROR_DEVICE_LOST", "ERROR_OTHER" }

\* The table whose last arm lets an unrecognized status through as Timeout.
SwapchainAcquireErrorFallthrough(status) ==
    CASE status = "NOT_READY" -> "NotReady"
      [] status = "TIMEOUT" -> "Timeout"
      [] status = "ERROR_OUT_OF_DATE_KHR" -> "OutOfDate"
      [] status = "ERROR_SURFACE_LOST_KHR" -> "SurfaceLost"
      [] status = "ERROR_OUT_OF_HOST_MEMORY" -> "OutOfMemory(OutOfHostMemory)"
      [] status = "ERROR_OUT_OF_DEVICE_MEMORY" -> "OutOfMemory(OutOfDeviceMemory)"
      [] status = "ERROR_DEVICE_LOST" -> "DeviceLost"
      [] OTHER -> "Timeout"

\* hal::AcquireError, as returned by Swapchain::acquire_image's match.
SwapchainAcquireError(status) ==
    CASE status = "NOT_READY" -> "NotReady"
      [] status = "TIMEOUT" -> "Timeout"
      [] status = "ERROR_OUT_OF_DATE_KHR" -> "OutOfDate"
      [] status = "ERROR_SURFACE_LOST_KHR" -> "SurfaceLost"
      [] status = "ERROR_OUT_OF_HOST_MEMORY" -> "OutOfMemory(OutOfHostMemory)"
      [] status = "ERROR_OUT_OF_DEVICE_MEMORY" -> "OutOfMemory(OutOfDeviceMemory)"
      [] status = "ERROR_DEVICE_LOST" -> "DeviceLost"
      [] OTHER -> "panic"

\* The same table with two arms exchanged.
WaitErrorSwapped(status) ==
    CASE status = "NOT_READY" -> "Timeout"
      [] status = "TIMEOUT" -> "NotReady"
      [] status = "ERROR_OUT_OF_DATE_KHR" -> "OutOfDate"
      [] status = "ERROR_SURFACE_LOST_KHR" -> "SurfaceLost"
      [] status = "ERROR_OUT_OF_HOST_MEMORY" -> "OutOfMemory(OutOfHostMemory)"
      [] status = "ERROR_OUT_OF_DEVICE_MEMORY" -> "OutOfMemory(OutOfDeviceMemory)"
      [] status = "ERROR_DEVICE_LOST" -> "DeviceLost"
      [] OTHER -> "panic"

\* hal::AcquireError, as returned by the match on wait_for_fences.
WaitError(status) ==
    CASE status = "NOT_READY" -> "NotReady"
      [] status = "TIMEOUT" -> "Timeout"
      [] status = "ERROR_OUT_OF_DATE_KHR" -> "OutOfDate"
      [] status = "ERROR_SURFACE_LOST_KHR" -> "SurfaceLost"
      [] status = "ERROR_OUT_OF_HOST_MEMORY" -> "OutOfMemory(OutOfHostMemory)"
      [] status = "ERROR_OUT_OF_DEVICE_MEMORY" -> "OutOfMemory(OutOfDeviceMemory)"
      [] status = "ERROR_DEVICE_LOST" -> "DeviceLost"
      [] OTHER -> "panic"

\* ------------------------------------------------------------------ state
VARIABLES
    swapchain,      \* Surface.swapchain: Option<SurfaceSwapchain>
    stale_views,    \* Surface.stale_views: Vec of (semaphore, views)
    arcs,           \* the Arc<Vec<ImageView>> allocations: strong count, vec
    image_count,    \* images of each swapchain the driver created
    fences,         \* fences alive in the driver
    semaphores,     \* semaphores alive in the driver
    image_views,    \* image views alive in the driver
    fence_state,    \* state of the active fence
    held,           \* the SurfaceImages the caller holds
    pc,             \* position of the thread that owns the Surface
    cursor,         \* clear_stale_views: position of iter_mut
    timeout_ns,     \* acquire_image: the mut parameter
    timeout_arg,    \* acquire_image: the timeout the caller passed
    acquired,       \* acquire_image: (index, suboptimal) once bound
    next_id,        \* next handle the driver hands out
    overflow_checks,\* the build: TRUE panics on integer overflow, FALSE wraps
    call,           \* the call in progress or last made, as entered
    ret,            \* what the last completed call returned
    used,           \* fences and swapchains the current call gave the driver
    destroys        \* the destroy calls the current call made to the driver

vars == << swapchain, stale_views, arcs, image_count, fences, semaphores,
           image_views, fence_state, held, pc, cursor, timeout_ns, acquired,
           next_id, overflow_checks, timeout_arg, call, ret, used,
           destroys >>

Ids == 1 .. MaxConfigs

None == << >>
Some(x) == << x >>

Range(s) == { s[k] : k \in 1 .. Len(s) }

\* Arc::get_mut: Some exactly when this is the only reference.
ArcGetMutAlways(a) == arcs[a].strong >= 1
ArcGetMutNever(a) == arcs[a].strong = 0
ArcGetMut(a) == arcs[a].strong = 1

\* A drop that never gives its reference back.
ArcDropLeaks(ar, a) ==
    ar

\* drop of one Arc reference; the Vec is freed with the last one
\* (native::ImageView has no destructor, so freeing destroys no view).
ArcDrop(ar, a) ==
    [ar EXCEPT ![a] = IF @.strong = 1
                        THEN [strong |-> 0, vec |-> << >>]
                        ELSE [strong |-> @.strong - 1, vec |-> @.vec]]

RECURSIVE ArcDropAll(_, _)
ArcDropAll(ar, as) ==
    IF as = << >> THEN ar ELSE ArcDropAll(ArcDrop(ar, Head(as)), Tail(as))

\* The records of `call` and `ret` between two calls.
NoCall == [op |-> "none", swapchain |-> None, unheld |-> {}, format |-> "none"]
NoRet == [op |-> "none", val |-> "none", image |-> None,
          phase |-> "none", status |-> "none"]

Init ==
    /\ swapchain = None
    /\ stale_views = << >>
    /\ arcs = [a \in Ids |-> [strong |-> 0, vec |-> << >>]]
    /\ image_count = [a \in Ids |-> 0]
    /\ fences = {}
    /\ semaphores = {}
    /\ image_views = {}
    /\ fence_state = "none"
    /\ held = << >>
    /\ pc = "idle"
    /\ cursor = 0
    /\ timeout_ns = 0
    /\ timeout_arg = 0
    /\ acquired = None
    /\ next_id = 1
    /\ overflow_checks \in BOOLEAN
    /\ call = NoCall
    /\ ret = NoRet
    /\ used = {}
    /\ destroys = {}


TypeOK ==
    /\ Len(swapchain) <= 1
    /\ pc \in {"idle", "sweep", "acquire", "wait", "returned", "aborted",
              "dropped"}
    /\ next_id \in 1 .. MaxConfigs + 1
    /\ Len(held) <= MaxHeld
    /\ timeout_ns \in 0 .. U64Max
    /\ fence_state \in {"none", "unsignaled", "pending"}

\* ---------------------------------------------------- configure_swapchain
\* The Some arm of self.swapchain.take(): destroy_fence on the old fence.
FencesKeptOnTake ==
    fences
FencesAfterTake ==
    IF swapchain = None THEN fences ELSE fences \ {swapchain[1].fence}

\* The retired entry put in front of the pool.
StaleAfterTakeFront ==
    IF swapchain = None
      THEN stale_views
      ELSE << [semaphore |-> swapchain[1].semaphore,
               views |-> swapchain[1].views] >> \o stale_views

\* The Some arm of self.swapchain.take(): the push onto stale_views.
StaleAfterTake ==
    IF swapchain = None
      THEN stale_views
      ELSE Append(stale_views, [semaphore |-> swapchain[1].semaphore,
                                views |-> swapchain[1].views])

\* The `old` argument of create_swapchain.
OldSwapchain ==
    IF swapchain = None THEN None ELSE Some(swapchain[1].swapchain)

\* Surface.swapchain when create_swapchain's `?` returns: take() emptied it.
SwapchainRestoredOnCreationError ==
    swapchain
SwapchainOnCreationError ==
    None

\* images.iter().map(create_image_view).collect(): one view per image.
CreateImageViewsButLast(c, n) ==
    [k \in 1 .. (IF n = 0 THEN 0 ELSE n - 1) |-> << c, k >>]
CreateImageViews(c, n) ==
    [k \in 1 .. n |-> << c, k >>]

\* What the call hands to create_swapchain as `old`.
HintUsed ==
    { [kind |-> "old_swapchain", id |-> OldSwapchain[k]] :
        k \in 1 .. Len(OldSwapchain) }

\* The format create_image_view is given: the local `format`.
ViewFormatDefault(format) == "Rgba8Unorm"
ViewFormat(format) == format

\* The create_image_view calls that made the views.
ViewsCreated(views, format) ==
    { [kind |-> "create_image_view", id |-> views[k],
       format |-> ViewFormat(format)] : k \in 1 .. Len(views) }

\* The destroy_fence of the Some arm, with whether the fence was alive.
FenceDestroyedOnTake ==
    { [kind |-> "fence", id |-> swapchain[k].fence,
       live |-> swapchain[k].fence \in fences] : k \in 1 .. Len(swapchain) }

ConfigureEnter(format) ==
    /\ pc = "idle"
    /\ call' = [op |-> "configure_swapchain", swapchain |-> swapchain,
                unheld |-> {}, format |-> format]
    /\ destroys' = FenceDestroyedOnTake
    /\ stale_views' = StaleAfterTake
    /\ UNCHANGED << held, cursor, timeout_ns, timeout_arg, acquired,
                    overflow_checks >>

\* create_swapchain returns Err: the `?` returns the CreationError.
ConfigureSwapchainErr(format) ==
    /\ ConfigureEnter(format)
    /\ used' = HintUsed
    /\ swapchain' = SwapchainOnCreationError
    /\ fences' = FencesAfterTake
    /\ fence_state' = IF swapchain' = None THEN "none" ELSE fence_state
    /\ ret' = [op |-> "configure_swapchain", val |-> "CreationError",
               image |-> None, phase |-> "none", status |-> "none"]
    /\ pc' = "returned"
    /\ UNCHANGED << arcs, image_count, semaphores, image_views, next_id >>

\* create_swapchain returns n images; fence, semaphore and views are created.
ConfigureSwapchainOk(n, format) ==
    /\ ConfigureEnter(format)
    /\ next_id <= MaxConfigs
    /\ LET c == next_id
           views == CreateImageViews(c, n)
       IN /\ swapchain' = Some([swapchain |-> c, fence |-> c,
                                semaphore |-> c, views |-> c])
          /\ fences' = FencesAfterTake \cup {c}
          /\ semaphores' = semaphores \cup {c}
          /\ image_views' = image_views \cup Range(views)
          /\ used' = HintUsed \cup ViewsCreated(views, format)
          /\ arcs' = [arcs EXCEPT ![c] = [strong |-> 1, vec |-> views]]
          /\ image_count' = [image_count EXCEPT ![c] = n]
          /\ next_id' = c + 1
    /\ fence_state' = "unsignaled"
    /\ ret' = [op |-> "configure_swapchain", val |-> "Ok",
               image |-> None, phase |-> "none", status |-> "none"]
    /\ pc' = "returned"

\* create_fence, create_semaphore or create_image_view returns Err: the
\* unwrap panics while the struct literal is being built.  What was created
\* before it is owned by no one: `stage` is the creation that failed.
ConfigureSwapchainPanic(stage, n, format) ==
    /\ ConfigureEnter(format)
    /\ next_id <= MaxConfigs
    /\ \/ stage = "semaphore" /\ n = 0
       \/ stage = "fence" /\ n = 0
       \/ stage = "view" /\ n >= 1
    /\ LET c == next_id
           views == CreateImageViews(c, n - 1)
       IN /\ swapchain' = None
          /\ fences' = IF stage = "fence" THEN FencesAfterTake
                       ELSE FencesAfterTake \cup {c}
          /\ semaphores' = IF stage = "view" THEN semaphores \cup {c}
                           ELSE semaphores
          /\ image_views' = IF stage = "view" THEN image_views \cup Range(views)
                            ELSE image_views
          /\ used' = IF stage = "view"
                       THEN HintUsed \cup ViewsCreated(views, format)
                       ELSE HintUsed
          /\ image_count' = [image_count EXCEPT ![c] = n]
          /\ next_id' = c + 1
    /\ fence_state' = "none"
    /\ pc' = "aborted"
    /\ ret' = [op |-> "configure_swapchain", val |-> "panic",
               image |-> None, phase |-> "none", status |-> "none"]
    /\ UNCHANGED arcs

configure_swapchain ==
    \/ \E format \in Formats : ConfigureSwapchainErr(format)
    \/ \E n \in ImageCounts, format \in Formats : ConfigureSwapchainOk(n, format)
    \/ \E stage \in {"fence", "semaphore", "view"}, n \in ImageCounts,
          format \in Formats :
         ConfigureSwapchainPanic(stage, n, format)

\* ------------------------------------------------------ clear_stale_views
\* Whether some SurfaceImage the caller holds references view set a.
Held(a) == \E j \in 1 .. Len(held) : held[j].views = a

\* destroy_semaphore of a reclaimed entry.
SemaphoresLeftOnSweep(sv) ==
    semaphores
SemaphoresAfterSweep(sv) ==
    semaphores \ {sv.semaphore}

\* The destroy_semaphore and destroy_image_view calls of one reclaimed
\* entry, each with whether its object was alive.
DestroyedBySweep(sv) ==
    { [kind |-> "semaphore", id |-> sv.semaphore,
       live |-> sv.semaphore \in semaphores] }
    \cup { [kind |-> "image_view", id |-> v, live |-> v \in image_views] :
             v \in Range(arcs[sv.views].vec) }

\* One iteration of the for loop over stale_views.iter_mut().
ClearStaleViewsStep ==
    /\ pc = "sweep"
    /\ cursor <= Len(stale_views)
    /\ LET sv == stale_views[cursor]
       IN IF ArcGetMut(sv.views)
            THEN /\ semaphores' = SemaphoresAfterSweep(sv)
                 /\ image_views' = image_views \ Range(arcs[sv.views].vec)
                 /\ arcs' = [arcs EXCEPT ![sv.views].vec = << >>]
                 /\ destroys' = destroys \cup DestroyedBySweep(sv)
            ELSE UNCHANGED << semaphores, image_views, arcs, destroys >>
    /\ cursor' = cursor + 1
    /\ UNCHANGED << swapchain, stale_views, image_count, fences, fence_state,
                    held, pc, timeout_ns, timeout_arg, acquired, next_id,
                    overflow_checks, call, ret, used >>

\* A retain that keeps every entry.
RetainEverything(sv) == TRUE

\* The predicate of stale_views.retain.
RetainPredicate(sv) == arcs[sv.views].vec # << >>

RECURSIVE DroppedViews(_)
DroppedViews(svs) ==
    IF svs = << >> THEN << >>
    ELSE IF RetainPredicate(Head(svs))
           THEN DroppedViews(Tail(svs))
           ELSE << Head(svs).views >> \o DroppedViews(Tail(svs))

\* self.stale_views.retain(|sv| !sv.2.is_empty()): the entries it removes
\* are dropped, and with them their reference to the view set.
ClearStaleViewsRetain ==
    /\ pc = "sweep"
    /\ cursor > Len(stale_views)
    /\ stale_views' = SelectSeq(stale_views, RetainPredicate)
    /\ arcs' = ArcDropAll(arcs, DroppedViews(stale_views))
    /\ pc' = "acquire"
    /\ cursor' = 0
    /\ UNCHANGED << swapchain, image_count, fences, semaphores, image_views,
                    fence_state, held, timeout_ns, timeout_arg, acquired, next_id,
                    overflow_checks, destroys, call, ret, used >>

\* ---------------------------------------------------------- acquire_image
\* Entry of Surface::acquire_image(timeout_ns): clear_stale_views starts.
AcquireImageEnter(t) ==
    /\ pc = "idle"
    /\ pc' = "sweep"
    /\ cursor' = 1
    /\ timeout_ns' = t
    /\ timeout_arg' = t
    /\ acquired' = None
    /\ call' = [op |-> "acquire_image", swapchain |-> swapchain,
                unheld |-> { stale_views[k].views : k \in
                               { m \in 1 .. Len(stale_views) :
                                   ~ Held(stale_views[m].views) } },
                format |-> "none"]
    /\ UNCHANGED << swapchain, stale_views, arcs, image_count, fences,
                    semaphores, image_views, fence_state, held, next_id,
                    overflow_checks, destroys, ret, used >>

\* acquire_image returns or unwinds: its locals are gone.
LocalsDropped ==
    /\ cursor' = 0
    /\ timeout_ns' = 0
    /\ timeout_arg' = 0
    /\ acquired' = None

\* self.swapchain.as_mut().unwrap() on None.
UnwrapNoneSwallowed == [pc |-> "returned", val |-> "NotReady"]
UnwrapNone == [pc |-> "aborted", val |-> "panic"]

AcquireImageUnwrapNone ==
    /\ pc = "acquire"
    /\ swapchain = None
    /\ pc' = UnwrapNone.pc
    /\ ret' = [op |-> "acquire_image", val |-> UnwrapNone.val, image |-> None,
               phase |-> "unwrap", status |-> "none"]
    /\ LocalsDropped
    /\ UNCHANGED << swapchain, stale_views, arcs, image_count, fences,
                    semaphores, image_views, fence_state, held, next_id,
                    overflow_checks, destroys, call, used >>

\* What ssc.swapchain.acquire_image(timeout_ns, None, Some(&ssc.fence)) hands
\* to the driver.
UsedByAcquire ==
    used \cup { [kind |-> "swapchain", id |-> swapchain[1].swapchain],
                [kind |-> "fence", id |-> swapchain[1].fence] }

\* The next-image request fails: Swapchain::acquire_image maps the status and
\* the `?` returns it, or the match panics.
SwapchainAcquireImageErr(status) ==
    /\ pc = "acquire"
    /\ swapchain # None
    /\ used' = UsedByAcquire
    /\ LET v == SwapchainAcquireError(status)
       IN /\ pc' = IF v = "panic" THEN "aborted" ELSE "returned"
          /\ ret' = [op |-> "acquire_image", val |-> v, image |-> None,
                     phase |-> "next_image", status |-> status]
    /\ LocalsDropped
    /\ UNCHANGED << swapchain, stale_views, arcs, image_count, fences,
                    semaphores, image_views, fence_state, held, next_id,
                    overflow_checks, destroys, call >>

\* timeout_ns -= moment.elapsed().as_nanos() as u64, on u64: the difference
\* when it is representable; otherwise a panic in a build with overflow
\* checks and the wrapped difference in a build without.
SubOverflows(a, b) == b > a
WrappingSub(a, b) == (a - b + U64Modulus) % U64Modulus

\* The next-image request succeeds with (index, suboptimal) after `elapsed`:
\* the driver hands out one of the swapchain's images and will signal the
\* fence; then the subtraction.
SwapchainAcquireImageOk(index, suboptimal, elapsed) ==
    /\ pc = "acquire"
    /\ swapchain # None
    /\ Len(held) < MaxHeld
    /\ index < image_count[swapchain[1].swapchain]
    /\ used' = UsedByAcquire
    /\ fence_state' = "pending"
    /\ IF SubOverflows(timeout_ns, elapsed) /\ overflow_checks
         THEN /\ pc' = "aborted"
              /\ ret' = [op |-> "acquire_image", val |-> "panic", image |-> None,
                         phase |-> "subtract", status |-> "SUCCESS"]
              /\ LocalsDropped
         ELSE /\ pc' = "wait"
              /\ acquired' = Some([index |-> index, suboptimal |-> suboptimal])
              /\ timeout_ns' = WrappingSub(timeout_ns, elapsed)
              /\ UNCHANGED << ret, cursor, timeout_arg >>
    /\ UNCHANGED << swapchain, stale_views, arcs, image_count, fences,
                    semaphores, image_views, held, next_id,
                    overflow_checks, destroys, call >>

\* The caller's SurfaceImages are kept as a sequence ordered by view set and
\* index: which of them the caller got first plays no role.
Before(x, y) ==
    x.views < y.views \/ (x.views = y.views /\ x.index <= y.index)
Insert(s, x) ==
    LET n == Cardinality({ k \in 1 .. Len(s) : Before(s[k], x) })
    IN SubSeq(s, 1, n) \o << x >> \o SubSeq(s, n + 1, Len(s))

\* A SurfaceImage that ignores the index the driver returned.
SurfaceImageFirstIndex ==
    [index |-> 0, views |-> swapchain[1].views]

\* The SurfaceImage of the Ok arm.
SurfaceImage ==
    [index |-> acquired[1].index, views |-> swapchain[1].views]

\* wait_for_fences returns Ok: reset_fences, Arc::clone, Ok((image, suboptimal)).
WaitForFencesOk ==
    /\ pc = "wait"
    /\ used' = used \cup {[kind |-> "fence", id |-> swapchain[1].fence]}
    /\ fence_state' = "unsignaled"
    /\ arcs' = [arcs EXCEPT ![swapchain[1].views].strong = @ + 1]
    /\ held' = Insert(held, SurfaceImage)
    /\ pc' = "returned"
    /\ ret' = [op |-> "acquire_image",
               val |-> IF acquired[1].suboptimal THEN "Ok(Suboptimal)" ELSE "Ok",
               image |-> Some(SurfaceImage),
               phase |-> "fence_wait", status |-> "SUCCESS"]
    /\ LocalsDropped
    /\ UNCHANGED << swapchain, stale_views, image_count, fences, semaphores,
                    image_views, next_id, overflow_checks, destroys, call >>

\* wait_for_fences returns Ok and reset_fences returns Err: unwrap panics.
WaitForFencesResetPanic ==
    /\ pc = "wait"
    /\ used' = used \cup {[kind |-> "fence", id |-> swapchain[1].fence]}
    /\ pc' = "aborted"
    /\ ret' = [op |-> "acquire_image", val |-> "panic", image |-> None,
               phase |-> "reset_fences", status |-> "SUCCESS"]
    /\ LocalsDropped
    /\ UNCHANGED << swapchain, stale_views, arcs, image_count, fences,
                    semaphores, image_views, fence_state, held, next_id,
                    overflow_checks, destroys, call >>

\* wait_for_fences returns Err(status): the match maps it or panics.
WaitForFencesErr(status) ==
    /\ pc = "wait"
    /\ used' = used \cup {[kind |-> "fence", id |-> swapchain[1].fence]}
    /\ LET v == WaitError(status)
       IN /\ pc' = IF v = "panic" THEN "aborted" ELSE "returned"
          /\ ret' = [op |-> "acquire_image", val |-> v, image |-> None,
                     phase |-> "fence_wait", status |-> status]
    /\ LocalsDropped
    /\ UNCHANGED << swapchain, stale_views, arcs, image_count, fences,
                    semaphores, image_views, fence_state, held, next_id,
                    overflow_checks, destroys, call >>

acquire_image ==
    \/ \E t \in Timeouts : AcquireImageEnter(t)
    \/ ClearStaleViewsStep
    \/ ClearStaleViewsRetain
    \/ AcquireImageUnwrapNone
    \/ \E status \in VkErrors : SwapchainAcquireImageErr(status)
    \/ \E index \in 0 .. MaxImages - 1, suboptimal \in BOOLEAN,
          elapsed \in 0 .. MaxElapsed :
         SwapchainAcquireImageOk(index, suboptimal, elapsed)
    \/ WaitForFencesOk
    \/ WaitForFencesResetPanic
    \/ \E status \in VkErrors : WaitForFencesErr(status)

\* ----------------------------------------------------- drop(SurfaceImage)
\* The caller drops its j-th SurfaceImage: the Arc reference goes.
DropSurfaceImage(j) ==
    /\ pc # "aborted"
    /\ j \in 1 .. Len(held)
    /\ held' = [k \in 1 .. Len(held) - 1 |-> IF k < j THEN held[k] ELSE held[k + 1]]
    /\ arcs' = ArcDrop(arcs, held[j].views)
    /\ UNCHANGED << swapchain, stale_views, image_count, fences, semaphores,
                    image_views, fence_state, pc, cursor, timeout_ns, timeout_arg,
                    acquired,
                    next_id, overflow_checks, destroys, call, ret, used >>

\* The caller has the result of the call and goes on: the next call may
\* start.  What the finished call was given and returned is forgotten.
CallerResumes ==
    /\ pc = "returned"
    /\ pc' = "idle"
    /\ call' = NoCall
    /\ ret' = NoRet
    /\ used' = {}
    /\ destroys' = {}
    /\ UNCHANGED << swapchain, stale_views, arcs, image_count, fences,
                    semaphores, image_views, fence_state, held, cursor,
                    timeout_ns, timeout_arg, acquired, next_id,
                    overflow_checks >>

Next ==
    \/ configure_swapchain
    \/ acquire_image
    \/ CallerResumes
    \/ \E j \in 1 .. MaxHeld : DropSurfaceImage(j)

Spec == Init /\ [][Next]_vars

\* ------------------------------------------------------------ compatibility
\* !0 on u32.
U32Max == 2 ^ CountBits - 1

\* The image counts a driver may report: an upper bound of 0, or one that is
\* not below the lower bound.
SurfaceCaps ==
    { c \in [min_image_count : 0 .. U32Max, max_image_count : 0 .. U32Max] :
        c.max_image_count = 0 \/ c.min_image_count <= c.max_image_count }

\* let max_images = if caps.max_image_count == 0 { !0 } else { .. }.
max_images_unchecked(caps) == caps.max_image_count
max_images(caps) ==
    IF caps.max_image_count = 0 THEN U32Max ELSE caps.max_image_count

\* image_count: caps.min_image_count ..= max_images.
image_count_range(caps) ==
    [start |-> caps.min_image_count, end |-> max_images(caps)]

\* Surface::compatibility on the capabilities the driver reports.
compatibility(caps) ==
    /\ pc = "idle"
    /\ pc' = "returned"
    /\ call' = [op |-> "compatibility", caps |-> caps]
    /\ ret' = [op |-> "compatibility", image_count |-> image_count_range(caps)]
    /\ UNCHANGED << swapchain, stale_views, arcs, image_count, fences,
                    semaphores, image_views, fence_state, held, cursor,
                    timeout_ns, timeout_arg, acquired, next_id,
                    overflow_checks, used, destroys >>

\* The capability query fails: expect panics.
CompatibilityPanic ==
    /\ pc = "idle"
    /\ pc' = "aborted"
    /\ call' = [op |-> "compatibility", caps |-> None]
    /\ ret' = [op |-> "compatibility", image_count |-> None]
    /\ UNCHANGED << swapchain, stale_views, arcs, image_count, fences,
                    semaphores, image_views, fence_state, held, cursor,
                    timeout_ns, timeout_arg, acquired, next_id,
                    overflow_checks, used, destroys >>

NextCompatibility ==
    \/ \E caps \in SurfaceCaps : compatibility(caps)
    \/ CompatibilityPanic
    \/ CallerResumes

SpecCompatibility == Init /\ [][NextCompatibility]_vars

\* ------------------------------------------------------------ drop(Surface)
\* The view sets the Surface references: the active one, then the stale ones.
SurfaceViewSets ==
    [k \in 1 .. Len(swapchain) |-> swapchain[k].views]
    \o [k \in 1 .. Len(stale_views) |-> stale_views[k].views]

\* The caller drops the Surface between two calls.  Surface and
\* SurfaceSwapchain have no Drop: the fields are dropped one by one.  The last
\* reference to RawSurface goes and its drop destroys the native surface;
\* the Option and the Vec are freed, which releases their references to the
\* view sets and makes no driver call for a fence, a semaphore or a view.
DropSurface ==
    /\ pc = "idle"
    /\ pc' = "dropped"
    /\ destroys' = {[kind |-> "surface", id |-> 0, live |-> TRUE]}
    /\ swapchain' = None
    /\ stale_views' = << >>
    /\ arcs' = ArcDropAll(arcs, SurfaceViewSets)
    /\ fence_state' = "none"
    /\ UNCHANGED << image_count, fences, semaphores, image_views, held, cursor,
                    timeout_ns, timeout_arg, acquired, next_id,
                    overflow_checks, call, ret, used >>

NextTeardown ==
    \/ Next
    \/ DropSurface

SpecTeardown == Init /\ [][NextTeardown]_vars

\* --------------------------------------------------- gl/window/dummy.rs
\* The values of the dummy Swapchain struct: an extent and no framebuffer
\* (ArrayVec<[RawFrameBuffer; 0]> has capacity 0).
DummySwapchains ==
    [extent : [width : 0 .. MaxExtent, height : 0 .. MaxExtent],
     fbos : {<< >>}]

\* A dummy Surface as the rest of the crate may have built it: the field
\* swapchain is pub(crate), None or some Swapchain.  Nothing else exists.
InitDummy ==
    /\ swapchain \in {None} \cup { Some(sc) : sc \in DummySwapchains }
    /\ stale_views = << >>
    /\ arcs = [a \in Ids |-> [strong |-> 0, vec |-> << >>]]
    /\ image_count = [a \in Ids |-> 0]
    /\ fences = {}
    /\ semaphores = {}
    /\ image_views = {}
    /\ fence_state = "none"
    /\ held = << >>
    /\ pc = "idle"
    /\ cursor = 0
    /\ timeout_ns = 0
    /\ timeout_arg = 0
    /\ acquired = None
    /\ next_id = 1
    /\ overflow_checks = FALSE
    /\ call = NoCall
    /\ ret = NoRet
    /\ used = {}
    /\ destroys = {}

\* unimplemented!(): the body of every method of the file; a panic.
Unimplemented == "aborted"

\* The body of a dummy method called with arguments args: no field is read
\* or assigned before it ends.
DummyBody(op, args) ==
    /\ pc' = Unimplemented
    /\ call' = [op |-> op, args |-> args]
    /\ ret' = [op |-> op,
               val |-> IF pc' = "aborted" THEN "panic" ELSE "unit"]
    /\ UNCHANGED << swapchain, stale_views, arcs, image_count, fences,
                    semaphores, image_views, fence_state, held, cursor,
                    timeout_ns, timeout_arg, acquired, next_id,
                    overflow_checks, used, destroys >>

\* <Surface as hal::Surface>::compatibility(&self, _).
dummy_compatibility ==
    /\ pc = "idle"
    /\ DummyBody("compatibility", << >>)

\* <Surface as hal::Surface>::supports_queue_family(&self, _).
dummy_supports_queue_family ==
    /\ pc = "idle"
    /\ DummyBody("supports_queue_family", << >>)

\* <Surface as hal::PresentationSurface>::configure_swapchain(&mut self, _, _).
dummy_configure_swapchain ==
    /\ pc = "idle"
    /\ \E format \in Formats :
         DummyBody("configure_swapchain", << format >>)

\* <Surface as hal::PresentationSurface>::acquire_image(&mut self, _: u64).
dummy_acquire_image ==
    /\ pc = "idle"
    /\ \E t \in Timeouts :
         DummyBody("acquire_image", << t >>)

\* <Swapchain as hal::Swapchain>::acquire_image(&mut self, _: u64,
\* _: Option<&Semaphore>, _: Option<&Fence>), on the Surface's Swapchain.
dummy_swapchain_acquire_image ==
    /\ pc = "idle"
    /\ swapchain # None
    /\ \E t \in Timeouts, semaphore \in BOOLEAN, fence \in BOOLEAN :
         DummyBody("Swapchain::acquire_image", << t, semaphore, fence >>)

NextDummy ==
    \/ dummy_compatibility
    \/ dummy_supports_queue_family
    \/ dummy_configure_swapchain
    \/ dummy_acquire_image
    \/ dummy_swapchain_acquire_image

SpecDummy == InitDummy /\ [][NextDummy]_vars

\* ------------------------------------------------------------- properties
\* The views the driver created for view set a.
ViewsOf(a) == { << a, k >> : k \in 1 .. image_count[a] }

\* The view sets that have an entry in the stale pool.
StaleSets == { stale_views[k].views : k \in 1 .. Len(stale_views) }

\* The view set of the active configuration, if any.
ActiveSets == { swapchain[k].views : k \in 1 .. Len(swapchain) }

\* C1: while the caller holds a SurfaceImage, every image view of the view
\* set it was acquired from is alive and the set still has all its views,
\* whatever configure_swapchain, acquire_image (its sweep steps included) and
\* drops of other SurfaceImages have happened since.
C1_HeldViewsStayAlive ==
    \A j \in 1 .. Len(held) :
        /\ ViewsOf(held[j].views) \subseteq image_views
        /\ Len(arcs[held[j].views].vec) = image_count[held[j].views]

\* A SurfaceImage of configuration 1 is held, configuration 2 came and went
\* and was reclaimed by a sweep, and the held set is still in the pool.
C1_Witness ==
    /\ \E j \in 1 .. Len(held) : held[j].views = 1
    /\ 1 \in StaleSets
    /\ next_id > 2
    /\ image_count[2] > 0
    /\ ViewsOf(2) \cap image_views = {}
    /\ pc = "acquire"

\* C2, one loop iteration: an entry no SurfaceImage holds has its semaphore
\* and all its views destroyed; a held entry keeps its semaphore, its views
\* and its view set untouched.
C2_StepDecides ==
    (pc = "sweep" /\ cursor <= Len(stale_views) /\ cursor' = cursor + 1) =>
        LET sv == stale_views[cursor]
        IN IF Held(sv.views)
             THEN /\ sv.semaphore \in semaphores'
                  /\ ViewsOf(sv.views) \subseteq image_views'
                  /\ arcs'[sv.views] = arcs[sv.views]
             ELSE /\ sv.semaphore \notin semaphores'
                  /\ ViewsOf(sv.views) \cap image_views' = {}

\* C2, the retain: exactly the entries the loop reclaimed leave the pool, the
\* others stay, in order, with semaphore and views alive; this for view sets
\* of every size, zero included.
C2_RetainDecides ==
    (pc = "sweep" /\ pc' = "acquire") =>
        /\ \A k \in 1 .. Len(stale_views) :
             LET sv == stale_views[k]
             IN IF sv \in Range(stale_views')
                  THEN /\ sv.semaphore \in semaphores'
                       /\ ViewsOf(sv.views) \subseteq image_views'
                  ELSE /\ sv.semaphore \notin semaphores'
                       /\ ViewsOf(sv.views) \cap image_views' = {}
                       /\ ~ Held(sv.views)
        /\ Range(stale_views') \subseteq Range(stale_views)

\* C2: one run of clear_stale_views decides every stale entry by whether a
\* SurfaceImage still holds its view set: unheld entries are destroyed
\* (semaphore and all views) and removed, held ones stay intact, and no entry
\* leaves the pool with its semaphore or a view alive.
C2_SweepDecidesEachEntry ==
    [][C2_StepDecides /\ C2_RetainDecides]_vars

\* A sweep ended having reclaimed a view set of zero views and kept a held one.
C2_Witness ==
    /\ pc = "acquire"
    /\ call.op = "acquire_image"
    /\ \E c \in Ids : /\ c < next_id
                      /\ image_count[c] = 0
                      /\ c \notin semaphores
                      /\ c \notin StaleSets \cup ActiveSets
    /\ \E c \in StaleSets : Held(c) /\ image_count[c] > 0

\* C3: a view set some SurfaceImage holds is in the active slot or in the
\* stale pool, through every call; and once the sweep of an acquire_image
\* call is done (so when the call returns, with success or a typed error) no
\* entry that had no holder when the call started is left in the pool.
C3_StaleGoneWithinOneAcquire ==
    /\ \A j \in 1 .. Len(held) : held[j].views \in StaleSets \cup ActiveSets
    /\ (call.op = "acquire_image" /\ pc \in {"acquire", "wait", "returned"})
         => StaleSets \cap call.unheld = {}

\* An acquire_image call that started with an unheld stale entry returned
\* Timeout, with a SurfaceImage in the caller's hands.
C3_Witness ==
    /\ pc = "returned"
    /\ ret.op = "acquire_image"
    /\ ret.val = "Timeout"
    /\ call.unheld # {}
    /\ held # << >>

\* C4: the Surface never has more than one active configuration: the fences
\* alive are exactly the fence of the active slot, at most one; after a
\* configure_swapchain that returned Ok there is exactly one, and an
\* acquire_image entered with a configuration does not fail for lack of one.
C4_AtMostOneActive ==
    ~ (ret.op = "configure_swapchain" /\ ret.val = "panic") =>
        /\ Cardinality(fences) <= 1
        /\ fences = { swapchain[k].fence : k \in 1 .. Len(swapchain) }
        /\ (pc = "returned" /\ ret.op = "configure_swapchain" /\ ret.val = "Ok")
             => (Len(swapchain) = 1 /\ Cardinality(fences) = 1)
        /\ (call.op = "acquire_image" /\ call.swapchain # None)
             => ret.phase # "unwrap"

\* A reconfiguration returned Ok with the previous configuration now stale.
C4_Witness ==
    /\ pc = "returned"
    /\ ret.op = "configure_swapchain"
    /\ ret.val = "Ok"
    /\ call.swapchain # None
    /\ stale_views # << >>

\* C5: when configure_swapchain returns the CreationError the Surface has no
\* active configuration and no fence, also if it had one on entry; and while
\* there is none, acquire_image does not return: it ends in the panic.
C5_FailedConfigureLeavesNone ==
    /\ (pc = "returned" /\ ret.op = "configure_swapchain"
          /\ ret.val = "CreationError")
         => (swapchain = None /\ fences = {})
    /\ (ret.op = "acquire_image" /\ swapchain = None)
         => (pc = "aborted" /\ ret.val = "panic")

\* configure_swapchain failed on a Surface that had an active configuration.
C5_Witness ==
    /\ pc = "returned"
    /\ ret.op = "configure_swapchain"
    /\ ret.val = "CreationError"
    /\ call.swapchain # None
    /\ swapchain = None

\* The typed outcome the spec gives each driver failure.
TypedOutcome ==
    [s \in VkErrors \ {"ERROR_OTHER"} |->
        CASE s = "NOT_READY" -> "NotReady"
          [] s = "TIMEOUT" -> "Timeout"
          [] s = "ERROR_OUT_OF_DATE_KHR" -> "OutOfDate"
          [] s = "ERROR_SURFACE_LOST_KHR" -> "SurfaceLost"
          [] s = "ERROR_OUT_OF_HOST_MEMORY" -> "OutOfMemory(OutOfHostMemory)"
          [] s = "ERROR_OUT_OF_DEVICE_MEMORY" -> "OutOfMemory(OutOfDeviceMemory)"
          [] s = "ERROR_DEVICE_LOST" -> "DeviceLost"]

\* C6, the step on which acquire_image returns after a driver failure.
C6_ErrorReturn ==
    (pc # "returned" /\ pc' = "returned" /\ ret'.op = "acquire_image"
       /\ ret'.status # "SUCCESS") =>
        /\ ret'.status \in DOMAIN TypedOutcome
        /\ ret'.val = TypedOutcome[ret'.status]
        /\ ret'.image = None
        /\ held' = held
        /\ swapchain' = swapchain
        /\ swapchain' = call.swapchain
        /\ Len(swapchain') = 1
        /\ swapchain'[1].fence \in fences'
        /\ swapchain'[1].semaphore \in semaphores'
        /\ arcs'[swapchain'[1].views] = arcs[swapchain'[1].views]
        /\ ViewsOf(swapchain'[1].views) \subseteq image_views'

\* C6: an acquire_image that returns after a driver failure, of the
\* next-image request or of the fence wait, returns the typed outcome of that
\* status, hands out no SurfaceImage and leaves the active configuration
\* (swapchain, fence, semaphore, view set) the one it was, alive.
C6_ErrorLeavesConfiguration ==
    [][C6_ErrorReturn]_vars

\* The driver reported ERROR_SURFACE_LOST_KHR and the call returned SurfaceLost.
C6_Witness ==
    /\ pc = "returned"
    /\ ret.op = "acquire_image"
    /\ ret.status = "ERROR_SURFACE_LOST_KHR"
    /\ ret.val = "SurfaceLost"
    /\ swapchain # None

\* C7 (as claimed): in an acquire_image called with timeout 0, the budget
\* handed to wait_for_fences is 0.
C7_ZeroTimeoutNeverBlocks ==
    (call.op = "acquire_image" /\ pc = "wait" /\ timeout_arg = 0)
        => timeout_ns = 0

\* C8 (as claimed): the budget handed to wait_for_fences is never larger than
\* the timeout the caller passed, and the subtraction never aborts the call.
C8_BudgetWithinTimeout ==
    /\ (call.op = "acquire_image" /\ pc = "wait") => timeout_ns <= timeout_arg
    /\ ~ (pc = "aborted" /\ ret.op = "acquire_image" /\ ret.phase = "subtract")

\* C9: the index of every SurfaceImage handed out or held is smaller than the
\* number of views of its view set, and the view it resolves to is alive.
C9_IndexInBounds ==
    /\ \A j \in 1 .. Len(held) :
         /\ held[j].index < Len(arcs[held[j].views].vec)
         /\ arcs[held[j].views].vec[held[j].index + 1] \in image_views
    /\ \A k \in 1 .. Len(ret.image) :
         ret.image[k].index < Len(arcs[ret.image[k].views].vec)

\* A SurfaceImage of the last image of a stale view set of several views.
C9_Witness ==
    \E j \in 1 .. Len(held) :
        /\ held[j].index >= 1
        /\ held[j].index = image_count[held[j].views] - 1
        /\ held[j].views \in StaleSets

\* C10: an acquire_image entered with no active configuration never returns
\* and never gets to the driver: after its sweep it ends in the panic of the
\* unwrap, having handed no fence and no swapchain to the driver and no
\* SurfaceImage to the caller.
C10_NoConfigurationAborts ==
    (call.op = "acquire_image" /\ call.swapchain = None) =>
        /\ pc \in {"sweep", "acquire", "aborted"}
        /\ used = {}
        /\ fences = {}
        /\ ret.image = None
        /\ pc = "aborted" => (ret.val = "panic" /\ ret.phase = "unwrap")

\* acquire_image aborted on a Surface whose configure_swapchain had failed
\* after an earlier configuration.
C10_Witness ==
    /\ pc = "aborted"
    /\ ret.op = "acquire_image"
    /\ ret.phase = "unwrap"
    /\ call.swapchain = None
    /\ next_id > 1

\* C11: in both phases of acquire_image a driver failure status gives the
\* typed outcome of the table (NOT_READY NotReady, TIMEOUT Timeout,
\* ERROR_OUT_OF_DATE OutOfDate, ERROR_SURFACE_LOST SurfaceLost, the two
\* out-of-memory statuses OutOfMemory with their source, ERROR_DEVICE_LOST
\* DeviceLost) and the call returns it; any other failure status ends the
\* call in a panic, never in a return.
C11_StatusTranslationTotal ==
    (ret.op = "acquire_image" /\ ret.phase \in {"next_image", "fence_wait"}
       /\ ret.status # "SUCCESS") =>
        /\ ret.status \in VkErrors
        /\ ret.image = None
        /\ IF ret.status \in DOMAIN TypedOutcome
             THEN ret.val = TypedOutcome[ret.status] /\ pc = "returned"
             ELSE ret.val = "panic" /\ pc = "aborted"

\* The fence wait reported a status the table does not name and the call
\* ended in the panic.
C11_Witness ==
    /\ pc = "aborted"
    /\ ret.op = "acquire_image"
    /\ ret.phase = "fence_wait"
    /\ ret.status = "ERROR_OTHER"
    /\ ret.val = "panic"

\* C12 (as claimed): once the Surface is destroyed, no fence, semaphore or
\* image view created through it is alive: those of the active configuration
\* and those of every stale entry, held or not, have been destroyed.
C12_TeardownDestroysAll ==
    pc = "dropped" =>
        /\ fences = {}
        /\ semaphores = {}
        /\ image_views = {}

\* C13 (as claimed): the reported image-count range has min <= max, passes
\* the driver's lower bound and any non-zero upper bound through, and its
\* max is the largest count exactly when the driver reported 0.
C13_SentinelExactlyWhenZero ==
    (pc = "returned" /\ ret.op = "compatibility") =>
        /\ ret.image_count.start = call.caps.min_image_count
        /\ ret.image_count.start <= ret.image_count.end
        /\ call.caps.max_image_count # 0
             => ret.image_count.end = call.caps.max_image_count
        /\ ret.image_count.end = U32Max <=> call.caps.max_image_count = 0

\* C13 (amended): the reported image-count range has min <= max, passes the
\* driver's lower bound and any non-zero upper bound through, and its max is
\* the largest count whenever the driver reported 0 (a driver that reports
\* the largest count itself gets the same range).
C13_ImageCountRange ==
    (pc = "returned" /\ ret.op = "compatibility") =>
        /\ ret.image_count.start = call.caps.min_image_count
        /\ ret.image_count.start <= ret.image_count.end
        /\ call.caps.max_image_count # 0
             => ret.image_count.end = call.caps.max_image_count
        /\ call.caps.max_image_count = 0 => ret.image_count.end = U32Max
        /\ ret.image_count.end = U32Max
             => call.caps.max_image_count \in {0, U32Max}

\* The driver reported no upper bound and a lower bound of 2.
C13_Witness ==
    /\ pc = "returned"
    /\ ret.op = "compatibility"
    /\ call.caps.max_image_count = 0
    /\ call.caps.min_image_count = 2
    /\ ret.image_count.end = U32Max

\* C14 (as claimed): whenever acquire_image has returned, with success or
\* with a typed outcome, the fence of the active configuration is reset:
\* unsignaled, with no signal pending.
C14_FenceResetOnReturn ==
    (pc = "returned" /\ ret.op = "acquire_image")
        => fence_state = "unsignaled"

\* C15, the step of a configure_swapchain call, whatever its outcome.
C15_ConfigureStep ==
    (pc = "idle" /\ call'.op = "configure_swapchain") =>
        IF swapchain # None
          THEN /\ swapchain[1].fence \in fences
               /\ swapchain[1].fence \notin fences'
               /\ [kind |-> "fence", id |-> swapchain[1].fence, live |-> TRUE]
                    \in destroys'
               /\ Len(stale_views') = Len(stale_views) + 1
               /\ SubSeq(stale_views', 1, Len(stale_views)) = stale_views
               /\ stale_views'[Len(stale_views')] =
                    [semaphore |-> swapchain[1].semaphore,
                     views |-> swapchain[1].views]
               /\ swapchain[1].semaphore \in semaphores'
               /\ { u \in used' : u.kind = "old_swapchain" } =
                    { [kind |-> "old_swapchain", id |-> swapchain[1].swapchain] }
          ELSE /\ stale_views' = stale_views
               /\ destroys' = {}
               /\ { u \in used' : u.kind = "old_swapchain" } = {}

\* C15: a configure_swapchain call on a Surface with an active configuration
\* destroys that configuration's fence, appends its (semaphore, view set)
\* as one entry at the end of the stale pool, leaves the earlier entries as
\* they were and in order, and hands the old swapchain to create_swapchain,
\* whether the creation then succeeds, fails or panics; a call on a Surface
\* with no active configuration leaves the pool as it was and hands no hint.
C15_ReconfigureRetiresOld ==
    [][C15_ConfigureStep]_vars

\* A failed reconfiguration retired the second configuration behind the first.
C15_Witness ==
    /\ pc = "returned"
    /\ ret.op = "configure_swapchain"
    /\ ret.val = "CreationError"
    /\ Len(stale_views) = 2
    /\ used # {}

\* C16, the step on which acquire_image returns a SurfaceImage.
C16_SuccessStep ==
    (pc = "wait" /\ pc' = "returned" /\ ret'.image # None) =>
        LET img == ret'.image[1]
        IN /\ swapchain' = swapchain
           /\ swapchain = call.swapchain
           /\ img.views = swapchain[1].views
           /\ img.views \notin StaleSets
           /\ img.index = acquired[1].index
           /\ ret'.val = IF acquired[1].suboptimal THEN "Ok(Suboptimal)" ELSE "Ok"
           /\ Len(held') = Len(held) + 1
           /\ img \in Range(held')
           /\ arcs'[img.views].strong = arcs[img.views].strong + 1
           /\ arcs'[img.views].vec = arcs[img.views].vec

\* C16: a successful acquire_image hands the caller one SurfaceImage that
\* shares the view set of the configuration active during the call, never a
\* stale one, with the index and the suboptimal flag the driver returned; a
\* suboptimal result is a success and the active configuration stays.
C16_ImageOfActiveSet ==
    [][C16_SuccessStep]_vars

\* A suboptimal acquire of image 1 succeeded while a stale entry exists.
C16_Witness ==
    /\ pc = "returned"
    /\ ret.op = "acquire_image"
    /\ ret.val = "Ok(Suboptimal)"
    /\ ret.image[1].index = 1
    /\ stale_views # << >>

\* C17, the step of a configure_swapchain call that returns Ok.
C17_ConfigureCreatesViews ==
    (pc = "idle" /\ pc' = "returned" /\ ret'.op = "configure_swapchain"
       /\ ret'.val = "Ok") =>
        LET ssc == swapchain'[1]
            vec == arcs'[ssc.views].vec
        IN /\ Len(vec) = image_count'[ssc.swapchain]
           /\ \A k \in 1 .. Len(vec) : vec[k] = << ssc.swapchain, k >>
           /\ Range(vec) \cap image_views = {}
           /\ Range(vec) \subseteq image_views'
           /\ { u \in used' : u.kind = "create_image_view" } =
                { [kind |-> "create_image_view", id |-> vec[k],
                   format |-> call'.format] : k \in 1 .. Len(vec) }

\* C17, a step made while acquire_image runs.
C17_AcquireKeepsViews ==
    (pc \in {"sweep", "acquire", "wait"}) =>
        /\ image_views' \subseteq image_views
        /\ \A a \in ActiveSets : arcs'[a].vec = arcs[a].vec
        /\ { u \in used' : u.kind = "create_image_view" } = {}

\* C17: a configure_swapchain that returns Ok leaves an active view set with
\* one view per image of the new swapchain, in image order, each created in
\* that call with the requested format; acquire_image creates no view and
\* leaves the active view set as it is.
C17_ViewsMadeAtConfigure ==
    [][C17_ConfigureCreatesViews /\ C17_AcquireKeepsViews]_vars

\* A reconfiguration with two images and the second format returned Ok.
C17_Witness ==
    /\ pc = "returned"
    /\ ret.op = "configure_swapchain"
    /\ ret.val = "Ok"
    /\ call.swapchain # None
    /\ call.format = "Bgra8Srgb"
    /\ Len(arcs[swapchain[1].views].vec) = 2

\* The live SurfaceImages acquired from view set a.
HoldersOf(a) == { j \in 1 .. Len(held) : held[j].views = a }

\* C18: each view set in the active slot or in the stale pool has one
\* reference on the Surface side plus one per live SurfaceImage acquired
\* from it; no view set is both active and stale, none has two entries in
\* the stale pool, and Arc::get_mut succeeds on a set exactly when no live
\* SurfaceImage references it.
C18_HoldersCounted ==
    /\ \A a \in ActiveSets \cup StaleSets :
         /\ arcs[a].strong = 1 + Cardinality(HoldersOf(a))
         /\ ArcGetMut(a) <=> ~ Held(a)
    /\ ActiveSets \cap StaleSets = {}
    /\ \A i, j \in 1 .. Len(stale_views) :
         stale_views[i].views = stale_views[j].views => i = j

\* A stale view set with two live SurfaceImages next to an active one.
C18_Witness ==
    /\ swapchain # None
    /\ \E a \in StaleSets : arcs[a].strong = 3
    /\ pc = "sweep"
    /\ cursor > 1

\* C19 (as claimed): once the next-image request has handed out an index,
\* acquire_image returns a SurfaceImage, never an error from the fence wait.
C19_AcquiredImageReachesCaller ==
    (pc = "returned" /\ ret.op = "acquire_image" /\ ret.phase = "fence_wait")
        => ret.image # None

\* C20: every destroy_fence, destroy_semaphore and destroy_image_view call
\* is made on an object that is still alive, so none is destroyed twice;
\* the fence handed to the next-image request, waited on and reset is alive,
\* and so is the fence of the active configuration at every moment.
C20_NoDoubleDestroyNoUseAfterDestroy ==
    /\ \A d \in destroys : d.live
    /\ \A u \in used : u.kind = "fence" => u.id \in fences
    /\ swapchain # None => swapchain[1].fence \in fences

\* An acquire_image used the fence of the second configuration after its
\* sweep destroyed the semaphore and views of the first.
C20_Witness ==
    /\ pc = "returned"
    /\ ret.op = "acquire_image"
    /\ \E d \in destroys : d.kind = "semaphore"
    /\ \E d \in destroys : d.kind = "image_view"
    /\ \E u \in used : u.kind = "fence"
    /\ swapchain[1].fence \in fences

\* C21, a call of one of the dummy backend's operations.
C21_DummyCallStep ==
    (pc = "idle" /\ pc' # "idle") =>
        /\ pc' = "returned"
        /\ swapchain' = swapchain

\* C21 (as claimed): every operation of the dummy backend's Surface and
\* Swapchain (compatibility, supports_queue_family, configure_swapchain,
\* acquire_image) returns to its caller and leaves the state as it was; none
\* of them aborts.
C21_DummyOpsAreNoOps ==
    [][C21_DummyCallStep]_vars

=============================================================================
